---- MODULE Spec2Model ----
(***************************************************************************)
(* PlanMind.AI: the tiered fallback chains of utils/ai_service.py          *)
(* (generation), utils/database.py (persistence) and utils/pdf_service.py  *)
(* (export).                                                               *)
(*                                                                         *)
(* Three specifications share the variables:                               *)
(*   Spec      the persistence pipeline, save and load as whole calls;     *)
(*   SpecGen   the generation and export pipelines, as whole calls;        *)
(*   SpecRace  two concurrent save_to_local_storage calls, split at their  *)
(*             two file accesses.                                          *)
(***************************************************************************)
EXTENDS Integers, Sequences, FiniteSets, TLC

VARIABLES
    env,         \* what the process found at start-up: library and credentials
    remote,      \* rows of the remote table "strategy_sessions", in insertion order
    file,        \* content of LOCAL_STORAGE_FILE
    nextSid,     \* number of the next session (session_id is a fresh uuid per submit)
    last,        \* the last completed call: its inputs and what it returned
    wpc,         \* SpecRace: position of each concurrent writer
    wsess,       \* SpecRace: the session each writer saves
    wsnap,       \* SpecRace: what each writer read from the file
    wret,        \* SpecRace: what each writer returned
    lastWriter   \* SpecRace: the writer whose write reached the file last

vars == <<env, remote, file, nextSid, last, wpc, wsess, wsnap, wret, lastWriter>>

----------------------------------------------------------------------------
(* Bounds *)

MaxTs    == 2
MaxSaves == 2
MaxLimit == 2

\* user_id is a uuid string, one per browser session.
Users      == {"u1", "u2"}
\* ISO-8601 timestamps of one format compare as strings the way these
\* integers compare as numbers.
Timestamps == 1..MaxTs
\* limit is a Python int: the slice [:limit] accepts a negative one.
Limits     == (-1)..MaxLimit

----------------------------------------------------------------------------
(* Data *)

\* session_data of app.py: only the fields the persistence code reads.
Session(sid, uid, ts) == [sid |-> sid, uid |-> uid, ts |-> ts]

MissingFile  == [kind |-> "missing", data |-> <<>>]
\* content json.load rejects (empty, truncated, partially written)
CorruptFile  == [kind |-> "corrupt", data |-> <<>>]
\* valid JSON that is not an array of sessions (an object, a number, a
\* string): data.append raises on it, and so does session.get on what
\* iterating it yields
NonListFile  == [kind |-> "nonlist", data |-> <<>>]
ListFile(d)  == [kind |-> "list", data |-> d]

Range(s) == {s[i] : i \in 1..Len(s)}

Count(s, x) == Cardinality({i \in 1..Len(s) : s[i] = x})

----------------------------------------------------------------------------
(* utils/database.py *)

\* What the process found at start-up: the supabase import (lines 11-16),
\* the credentials in the environment (lines 28-33), and whether
\* create_client accepts them (lines 35-39).
Envs == {"no_library", "no_credentials", "init_throws", "configured"}

\* What one call on the remote store meets: it completes, it completes
\* with response.error set, or execute() raises.  A call that does not
\* complete cleanly stores nothing.
RemoteOutcomes == {"ok", "error", "throws"}

\* TRUE when a client object is returned, FALSE for None.
get_supabase_client(e) ==
    IF e = "no_library" THEN FALSE            \* not SUPABASE_AVAILABLE
    ELSE IF e = "no_credentials" THEN FALSE   \* url or key missing
    ELSE IF e = "init_throws" THEN FALSE      \* create_client raised
    ELSE TRUE

\* Faults of the file system during one call of save_to_local_storage.
Faults == {"none", "read", "open", "dump"}

\* Lines 66-73: the existing data, or the exception that leaves the try.
local_read(f, fault) ==
    IF f.kind = "missing" THEN [raised |-> FALSE, isList |-> TRUE, data |-> <<>>]
    ELSE IF fault = "read" THEN [raised |-> TRUE, isList |-> FALSE, data |-> <<>>]
    ELSE IF f.kind = "corrupt" THEN [raised |-> FALSE, isList |-> TRUE, data |-> <<>>]
    ELSE IF f.kind = "nonlist" THEN [raised |-> FALSE, isList |-> FALSE, data |-> <<>>]
    ELSE [raised |-> FALSE, isList |-> TRUE, data |-> f.data]

\* local_write, appending to what the file holds at the time of the write
\* instead of to what was read.
local_write_reread(f, rd, s, fault) ==
    IF rd.raised THEN [ret |-> FALSE, file |-> f]
    ELSE IF ~rd.isList THEN [ret |-> FALSE, file |-> f]
    ELSE IF fault = "open" THEN [ret |-> FALSE, file |-> f]
    ELSE IF fault = "dump" THEN [ret |-> FALSE, file |-> CorruptFile]
    ELSE [ret |-> TRUE, file |-> ListFile(Append(f.data, s))]

\* Lines 76-85: append to what was read, rewrite the file.  f is the file
\* at the time of the write.
local_write(f, rd, s, fault) ==
    IF rd.raised THEN [ret |-> FALSE, file |-> f]
    ELSE IF ~rd.isList THEN [ret |-> FALSE, file |-> f]       \* data.append raises
    ELSE IF fault = "open" THEN [ret |-> FALSE, file |-> f]   \* open(.., 'w') raises
    ELSE IF fault = "dump" THEN [ret |-> FALSE, file |-> CorruptFile]  \* truncated by open, json.dump raises
    ELSE [ret |-> TRUE, file |-> ListFile(Append(rd.data, s))]

\* save_to_local_storage, returning True after the except as well.
save_to_local_storage_true(f, s, fault) ==
    LET w == local_write(f, local_read(f, fault), s, fault)
    IN  [ret |-> TRUE, raised |-> FALSE, file |-> w.file]

save_to_local_storage(f, s, fault) ==
    LET w == local_write(f, local_read(f, fault), s, fault)
    IN  [ret |-> w.ret, raised |-> FALSE, file |-> w.file]

\* save_to_database, writing the file after a completed insert too.
save_to_database_both(e, rem, f, s, rc, fault) ==
    LET l == save_to_local_storage(f, s, fault)
    IN  IF get_supabase_client(e) /\ rc = "ok"
        THEN [ret |-> TRUE, raised |-> FALSE, remote |-> Append(rem, s),
              file |-> save_to_local_storage(f, s, "none").file, tier |-> "remote"]
        ELSE [ret |-> l.ret, raised |-> l.raised, remote |-> rem,
              file |-> l.file, tier |-> "local"]

save_to_database(e, rem, f, s, rc, fault) ==
    IF get_supabase_client(e)
    THEN IF rc = "ok"
         THEN [ret |-> TRUE, raised |-> FALSE, remote |-> Append(rem, s),
               file |-> f, tier |-> "remote"]
         ELSE LET l == save_to_local_storage(f, s, fault)
              IN  [ret |-> l.ret, raised |-> l.raised, remote |-> rem,
                   file |-> l.file, tier |-> "local"]
    ELSE LET l == save_to_local_storage(f, s, fault)
         IN  [ret |-> l.ret, raised |-> l.raised, remote |-> rem,
              file |-> l.file, tier |-> "local"]

\* [session for session in data if session.get("user_id") == user_id]
RECURSIVE FilterUser(_, _)
FilterUser(d, uid) ==
    IF d = <<>> THEN <<>>
    ELSE IF Head(d).uid = uid THEN <<Head(d)>> \o FilterUser(Tail(d), uid)
    ELSE FilterUser(Tail(d), uid)

\* x goes behind every element whose timestamp is not smaller: list.sort
\* is stable, and with reverse=True equal keys keep their original order.
RECURSIVE InsertDesc(_, _)
InsertDesc(sorted, x) ==
    IF sorted = <<>> THEN <<x>>
    ELSE IF Head(sorted).ts >= x.ts THEN <<Head(sorted)>> \o InsertDesc(Tail(sorted), x)
    ELSE <<x>> \o sorted

\* user_sessions.sort(key=timestamp, reverse=True)
RECURSIVE SortDesc(_)
SortDesc(d) ==
    IF d = <<>> THEN <<>>
    ELSE InsertDesc(SortDesc(SubSeq(d, 1, Len(d) - 1)), d[Len(d)])

\* Slice, one element short.
Slice_offbyone(d, n) ==
    IF n >= 1 THEN SubSeq(d, 1, IF n - 1 < Len(d) THEN n - 1 ELSE Len(d))
    ELSE <<>>

\* Slice, without the limit.
Slice_unbounded(d, n) == d

\* The Python slice d[:n]: a negative n counts from the end.
Slice(d, n) ==
    IF n >= 0 THEN SubSeq(d, 1, IF n < Len(d) THEN n ELSE Len(d))
    ELSE SubSeq(d, 1, Len(d) + n)

\* get_sessions_from_local_storage, without the sort.
get_sessions_from_local_storage_nosort(f, uid, limit) ==
    IF f.kind # "list" THEN [result |-> <<>>, raised |-> FALSE, file |-> f]
    ELSE [result |-> Slice(FilterUser(f.data, uid), limit),
          raised |-> FALSE, file |-> f]

\* get_sessions_from_local_storage, creating the file it does not find.
get_sessions_from_local_storage_touch(f, uid, limit) ==
    IF f.kind = "missing" THEN [result |-> <<>>, raised |-> FALSE, file |-> ListFile(<<>>)]
    ELSE IF f.kind # "list" THEN [result |-> <<>>, raised |-> FALSE, file |-> f]
    ELSE [result |-> Slice(SortDesc(FilterUser(f.data, uid)), limit),
          raised |-> FALSE, file |-> f]

\* get_sessions_from_local_storage, with the limit applied to the file
\* before the filter.
get_sessions_from_local_storage_slicefirst(f, uid, limit) ==
    IF f.kind # "list" THEN [result |-> <<>>, raised |-> FALSE, file |-> f]
    ELSE [result |-> SortDesc(FilterUser(Slice(f.data, limit), uid)),
          raised |-> FALSE, file |-> f]

get_sessions_from_local_storage(f, uid, limit) ==
    IF f.kind = "missing" THEN [result |-> <<>>, raised |-> FALSE, file |-> f]
    ELSE IF f.kind = "corrupt" THEN [result |-> <<>>, raised |-> FALSE, file |-> f]
    ELSE IF f.kind = "nonlist"
         THEN [result |-> <<>>, raised |-> FALSE, file |-> f]   \* caught at line 135
    ELSE [result |-> Slice(SortDesc(FilterUser(f.data, uid)), limit),
          raised |-> FALSE, file |-> f]

\* select * where user_id = uid order by timestamp desc limit n, as the
\* query of lines 94-99 asks of the store.
RemoteQuery(rem, uid, limit) ==
    Slice(SortDesc(FilterUser(rem, uid)), limit)

\* The outcomes a load can meet: no remote call without the library and
\* the credentials, and the store does not answer a query with a negative
\* limit.
QueryOutcomes(e, limit) ==
    IF e # "configured" THEN {"n/a"}
    ELSE IF limit < 0 THEN RemoteOutcomes \ {"ok"}
    ELSE RemoteOutcomes

\* The outcomes a save can meet.
InsertOutcomes(e) == IF e # "configured" THEN {"n/a"} ELSE RemoteOutcomes

\* No file access after an insert that completed.
SaveFaults(rc) == IF rc = "ok" THEN {"n/a"} ELSE Faults

\* get_previous_sessions, adding the rows of the file to those of a remote
\* query that did not complete cleanly.
get_previous_sessions_merged(e, rem, f, uid, limit, rc) ==
    LET l == get_sessions_from_local_storage(f, uid, limit)
    IN  IF get_supabase_client(e)
        THEN IF rc = "ok"
             THEN [result |-> RemoteQuery(rem, uid, limit), raised |-> FALSE,
                   file |-> f, tier |-> "remote"]
             ELSE [result |-> RemoteQuery(rem, uid, limit) \o l.result,
                   raised |-> l.raised, file |-> l.file, tier |-> "local"]
        ELSE [result |-> l.result, raised |-> l.raised, file |-> l.file,
              tier |-> "local"]

get_previous_sessions(e, rem, f, uid, limit, rc) ==
    IF get_supabase_client(e)
    THEN IF rc = "ok"
         THEN [result |-> RemoteQuery(rem, uid, limit), raised |-> FALSE,
               file |-> f, tier |-> "remote"]
         ELSE LET l == get_sessions_from_local_storage(f, uid, limit)
              IN  [result |-> l.result, raised |-> l.raised, file |-> l.file,
                   tier |-> "local"]
    ELSE LET l == get_sessions_from_local_storage(f, uid, limit)
         IN  [result |-> l.result, raised |-> l.raised, file |-> l.file,
              tier |-> "local"]

----------------------------------------------------------------------------
(* utils/ai_service.py *)

\* A Python value that is None or a string.
None == [isNone |-> TRUE, text |-> ""]
Str(t) == [isNone |-> FALSE, text |-> t]

\* "if response:" is false for None and for the empty string.
Truthy(v) == ~v.isNone /\ v.text # ""

\* What the primary provider can meet: the client cannot be built
\* (get_watson_client returns None), a call raises, the generated text is
\* empty, or text comes back.
WatsonOutcomes == {"probe_fails", "throws", "empty", "text"}

\* What the secondary provider can meet: the call raises, the message
\* content is None, it is the empty string, or text comes back.
OpenAIOutcomes == {"throws", "none", "empty", "text"}

WatsonText == "watson text"
OpenAIText == "openai text"

\* TRUE when a client object is returned, FALSE for None.
get_watson_client(ibm, w) ==
    IF ~ibm THEN FALSE
    ELSE IF w = "probe_fails" THEN FALSE
    ELSE TRUE

generate_strategy_with_watson(ibm, w) ==
    IF ~get_watson_client(ibm, w) THEN [val |-> None, raised |-> FALSE]
    ELSE IF w = "throws" THEN [val |-> None, raised |-> FALSE]   \* except at line 84
    ELSE IF w = "empty" THEN [val |-> None, raised |-> FALSE]    \* lines 79-80
    ELSE [val |-> Str(WatsonText), raised |-> FALSE]

generate_strategy_with_openai(oa, o) ==
    IF ~oa THEN [val |-> None, raised |-> FALSE]
    ELSE IF o = "throws" THEN [val |-> None, raised |-> FALSE]   \* except at line 110
    ELSE IF o = "none" THEN [val |-> None, raised |-> FALSE]
    ELSE IF o = "empty" THEN [val |-> Str(""), raised |-> FALSE]
    ELSE [val |-> Str(OpenAIText), raised |-> FALSE]

\* The document of lines 171-251, by its first line; the f-string has no
\* placeholder, so the arguments do not reach it.
FallbackText == "# Strategic Approaches for Your Business Problem"

generate_fallback_response(problem, context) == Str(FallbackText)

\* One entry of the trace of a generate: the tier and what became of it.
Ev(tier, what) == [tier |-> tier, what |-> what]

\* What became of a tier that was called and came back with r.
Came(tier, r) ==
    IF r.raised THEN Ev(tier, "raised")
    ELSE IF Truthy(r.val) THEN Ev(tier, "returned")
    ELSE Ev(tier, "failed")

\* generate_strategy, with the secondary tried only when the primary is
\* not available.
generate_strategy_elif(problem, context, ibm, w, oa, o) ==
    LET r1 == generate_strategy_with_watson(ibm, w)
        r2 == generate_strategy_with_openai(oa, o)
        t1 == IF ibm THEN <<Came("primary", r1)>> ELSE <<Ev("primary", "skipped")>>
        t2 == t1 \o (IF oa THEN <<Came("secondary", r2)>> ELSE <<Ev("secondary", "skipped")>>)
    IN  IF ibm
        THEN IF Truthy(r1.val)
             THEN [val |-> r1.val, raised |-> FALSE, trace |-> t1]
             ELSE [val |-> generate_fallback_response(problem, context),
                   raised |-> FALSE, trace |-> t1 \o <<Ev("static", "returned")>>]
        ELSE IF oa /\ Truthy(r2.val)
        THEN [val |-> r2.val, raised |-> FALSE, trace |-> t2]
        ELSE [val |-> generate_fallback_response(problem, context),
              raised |-> FALSE, trace |-> t2 \o <<Ev("static", "returned")>>]

\* generate_strategy, returning what the secondary gave without looking
\* at it.
generate_strategy_unchecked(problem, context, ibm, w, oa, o) ==
    LET r1 == generate_strategy_with_watson(ibm, w)
        r2 == generate_strategy_with_openai(oa, o)
        t1 == IF ibm THEN <<Came("primary", r1)>> ELSE <<Ev("primary", "skipped")>>
        t2 == t1 \o (IF oa THEN <<Came("secondary", r2)>> ELSE <<Ev("secondary", "skipped")>>)
    IN  IF ibm /\ Truthy(r1.val)
        THEN [val |-> r1.val, raised |-> r1.raised, trace |-> t1]
        ELSE IF oa
        THEN [val |-> r2.val, raised |-> r2.raised, trace |-> t2]
        ELSE [val |-> generate_fallback_response(problem, context),
              raised |-> FALSE, trace |-> t2 \o <<Ev("static", "returned")>>]

\* Lines 148-167.  The trace lists the tiers in the order the function
\* reaches them.
generate_strategy(problem, context, ibm, w, oa, o) ==
    LET r1 == generate_strategy_with_watson(ibm, w)
        r2 == generate_strategy_with_openai(oa, o)
        t1 == IF ibm THEN <<Came("primary", r1)>> ELSE <<Ev("primary", "skipped")>>
        t2 == t1 \o (IF oa THEN <<Came("secondary", r2)>> ELSE <<Ev("secondary", "skipped")>>)
    IN  IF ibm /\ r1.raised
        THEN [val |-> None, raised |-> TRUE, trace |-> t1]
        ELSE IF ibm /\ Truthy(r1.val)
        THEN [val |-> r1.val, raised |-> FALSE, trace |-> t1]
        ELSE IF oa /\ r2.raised
        THEN [val |-> None, raised |-> TRUE, trace |-> t2]
        ELSE IF oa /\ Truthy(r2.val)
        THEN [val |-> r2.val, raised |-> FALSE, trace |-> t2]
        ELSE [val |-> generate_fallback_response(problem, context),
              raised |-> FALSE, trace |-> t2 \o <<Ev("static", "returned")>>]

----------------------------------------------------------------------------
(* utils/pdf_service.py *)

\* What the renderer can meet once FPDF is imported: the document is
\* built, or a call of the library raises (a character the core font
\* cannot encode, an output target it does not accept).
RenderOutcomes == {"ok", "throws"}

Placeholder == "PDF export is not available because the FPDF package is not installed."

\* The bytes of the rendered document.
Rendered(problem, context, response) == <<"pdf", problem, context, response>>

\* Lines 35-107: no try around the calls of the library.
export_to_pdf(problem, context, response, fpdf, render) ==
    IF ~fpdf THEN [val |-> <<Placeholder>>, raised |-> FALSE]
    ELSE IF render = "throws" THEN [val |-> <<>>, raised |-> TRUE]
    ELSE [val |-> Rendered(problem, context, response), raised |-> FALSE]

----------------------------------------------------------------------------
(* The calls of the persistence pipeline *)

NoCall == [op |-> "none"]

raceIdle == [w \in {1, 2} |-> "idle"]
raceNone == [w \in {1, 2} |-> Session(0, "", 0)]
raceSnap == [w \in {1, 2} |-> local_read(MissingFile, "none")]
raceRet  == [w \in {1, 2} |-> FALSE]

RaceUnchanged == UNCHANGED <<wpc, wsess, wsnap, wret, lastWriter>>

\* What the first call can find on disk: no file, or a file this code did
\* not write.  Arrays of sessions come from the saves.
InitFiles == {MissingFile, CorruptFile, NonListFile}

Init ==
    /\ env \in Envs
    /\ remote = <<>>
    /\ file \in InitFiles
    /\ nextSid = 1
    /\ last = NoCall
    /\ wpc = raceIdle
    /\ wsess = raceNone
    /\ wsnap = raceSnap
    /\ wret = raceRet
    /\ lastWriter = 0

\* app.py line 112: save_to_database(session_data)
Save ==
    /\ nextSid <= MaxSaves
    /\ \E uid \in Users, ts \in Timestamps, rc \in InsertOutcomes(env) :
       \E fault \in SaveFaults(rc) :
         LET s == Session(nextSid, uid, ts)
             r == save_to_database(env, remote, file, s, rc, fault)
         IN  /\ remote' = r.remote
             /\ file' = r.file
             /\ nextSid' = nextSid + 1
             /\ last' = [op |-> "save", session |-> s, rc |-> rc, fault |-> fault,
                         ret |-> r.ret, raised |-> r.raised, tier |-> r.tier,
                         fileBefore |-> file, remoteBefore |-> remote]
    /\ UNCHANGED env
    /\ RaceUnchanged

\* get_previous_sessions(user_id, limit)
Load ==
    /\ \E uid \in Users, limit \in Limits :
       \E rc \in QueryOutcomes(env, limit) :
         LET r == get_previous_sessions(env, remote, file, uid, limit, rc)
         IN  /\ file' = r.file
             /\ last' = [op |-> "load", uid |-> uid, limit |-> limit, rc |-> rc,
                         result |-> r.result, raised |-> r.raised, tier |-> r.tier,
                         fileBefore |-> file, remoteBefore |-> remote]
    /\ UNCHANGED <<env, remote, nextSid>>
    /\ RaceUnchanged

Next == Save \/ Load

Spec == Init /\ [][Next]_vars

----------------------------------------------------------------------------
(* The calls of the generation and export pipelines *)

Problems == {"", "high customer acquisition costs"}
Contexts == {"", "Industry: Retail"}
Responses == {FallbackText, WatsonText, "- a bullet"}

StoreUnchanged == UNCHANGED <<env, remote, file, nextSid>>

InitGen ==
    /\ env = "no_library"
    /\ remote = <<>>
    /\ file = MissingFile
    /\ nextSid = 1
    /\ last = NoCall
    /\ wpc = raceIdle
    /\ wsess = raceNone
    /\ wsnap = raceSnap
    /\ wret = raceRet
    /\ lastWriter = 0

\* app.py lines 98 and 207: generate_strategy(business_problem, context)
Generate ==
    /\ \E problem \in Problems, context \in Contexts, ibm \in BOOLEAN, oa \in BOOLEAN :
       \E w \in (IF ibm THEN WatsonOutcomes ELSE {"n/a"}),
          o \in (IF oa THEN OpenAIOutcomes ELSE {"n/a"}) :
         LET r == generate_strategy(problem, context, ibm, w, oa, o)
         IN  last' = [op |-> "generate", problem |-> problem, context |-> context,
                      ibm |-> ibm, w |-> w, oa |-> oa, o |-> o,
                      val |-> r.val, raised |-> r.raised, trace |-> r.trace]
    /\ StoreUnchanged
    /\ RaceUnchanged

\* app.py lines 137 and 163: export_to_pdf(business_problem, context, response)
Export ==
    /\ \E problem \in Problems, context \in Contexts, response \in Responses,
          fpdf \in BOOLEAN :
       \E render \in (IF fpdf THEN RenderOutcomes ELSE {"n/a"}) :
         LET r == export_to_pdf(problem, context, response, fpdf, render)
         IN  last' = [op |-> "export", problem |-> problem, context |-> context,
                      response |-> response, fpdf |-> fpdf, render |-> render,
                      val |-> r.val, raised |-> r.raised]
    /\ StoreUnchanged
    /\ RaceUnchanged

NextGen == Generate \/ Export

SpecGen == InitGen /\ [][NextGen]_vars

----------------------------------------------------------------------------
(* Two concurrent calls of save_to_local_storage: nothing orders the read *)
(* of lines 66-73 of one call against the write of lines 79-80 of the     *)
(* other.                                                                  *)

Writers == {1, 2}

Other(w) == 3 - w

InitRace ==
    /\ env = "no_library"
    /\ remote = <<>>
    /\ file \in InitFiles
    /\ nextSid = 1
    /\ last = NoCall
    /\ wpc = raceIdle
    /\ wsess = raceNone
    /\ wsnap = raceSnap
    /\ wret = raceRet
    /\ lastWriter = 0

\* The call is entered with its session_data.
RaceBegin(w) ==
    /\ wpc[w] = "idle"
    /\ \E uid \in Users, ts \in Timestamps :
         wsess' = [wsess EXCEPT ![w] = Session(w, uid, ts)]
    /\ wpc' = [wpc EXCEPT ![w] = "read"]
    /\ UNCHANGED <<env, remote, file, nextSid, last, wsnap, wret, lastWriter>>

\* Lines 66-73.
RaceRead(w) ==
    /\ wpc[w] = "read"
    /\ \E fault \in {"none", "read"} :
         wsnap' = [wsnap EXCEPT ![w] = local_read(file, fault)]
    /\ wpc' = [wpc EXCEPT ![w] = "write"]
    /\ UNCHANGED <<env, remote, file, nextSid, last, wsess, wret, lastWriter>>

\* Lines 76-85.
RaceWrite(w) ==
    /\ wpc[w] = "write"
    /\ \E fault \in {"none", "open", "dump"} :
         LET r == local_write(file, wsnap[w], wsess[w], fault)
         IN  /\ file' = r.file
             /\ wret' = [wret EXCEPT ![w] = r.ret]
             /\ lastWriter' = IF r.ret THEN w ELSE lastWriter
    /\ wpc' = [wpc EXCEPT ![w] = "done"]
    /\ UNCHANGED <<env, remote, nextSid, last, wsess, wsnap>>

NextRace == \E w \in Writers : RaceBegin(w) \/ RaceRead(w) \/ RaceWrite(w)

SpecRace == InitRace /\ [][NextRace]_vars

----------------------------------------------------------------------------
(* Properties of the generation pipeline, checked under SpecGen *)

\* C1: generate returns non-empty text and never raises, whatever the two
\* providers do: unavailable, probe fails, throws, empty text or text.
C1_GenerateReturnsText ==
    last.op = "generate" =>
        /\ ~last.raised
        /\ ~last.val.isNone
        /\ last.val.text # ""

\* Both providers unavailable: the static document comes back.
C1_Witness ==
    /\ last.op = "generate"
    /\ ~last.ibm
    /\ ~last.oa
    /\ last.val = Str(FallbackText)

Rank(tier) == IF tier = "primary" THEN 1 ELSE IF tier = "secondary" THEN 2 ELSE 3

\* C2: the tiers are reached in the order primary, secondary, static, each
\* at most once; nothing is reached after a tier returned text; a primary
\* that throws is followed by the secondary before the static document; the
\* static document is returned only after both providers were skipped or
\* failed.
C2_TierOrder ==
    last.op = "generate" =>
        LET t == last.trace
            n == Len(t)
        IN  /\ n >= 1
            /\ \A i \in 1..n : \A j \in 1..n :
                 i < j => Rank(t[i].tier) < Rank(t[j].tier)
            /\ \A i \in 1..n : t[i].what = "returned" <=> i = n
            /\ t[n].tier = "static" =>
                 /\ n = 3
                 /\ t[1].tier = "primary" /\ t[1].what \in {"skipped", "failed"}
                 /\ t[2].tier = "secondary" /\ t[2].what \in {"skipped", "failed"}
                 /\ last.val = Str(FallbackText)
            /\ t[n].tier = "primary" => last.val = Str(WatsonText)
            /\ t[n].tier = "secondary" => last.val = Str(OpenAIText)
            /\ (last.ibm /\ last.w = "throws") =>
                 /\ n >= 2
                 /\ t[1] = Ev("primary", "failed")
                 /\ t[2].tier = "secondary"
                 /\ last.oa => t[2].what \in {"failed", "returned"}

\* The primary throws, the secondary is called and fails, the static
\* document is returned.
C2_Witness ==
    /\ last.op = "generate"
    /\ last.ibm /\ last.w = "throws"
    /\ last.oa /\ last.o = "empty"
    /\ last.trace = <<Ev("primary", "failed"), Ev("secondary", "failed"),
                      Ev("static", "returned")>>

\* C8: none of generate, save, load and export lets an exception reach its
\* caller: every failure of a tier becomes a fallback result, false, an
\* empty sequence or the placeholder payload.
C8_NoRawError ==
    last.op \in {"generate", "export", "save", "load"} => ~last.raised

----------------------------------------------------------------------------
(* Properties of the persistence pipeline, checked under Spec *)

\* The session that the latest save call appended to the local file: the
\* file ends with the session numbered nextSid - 1, so that call returned
\* true on the local tier and no save was called since.
JustSaved == file.data[Len(file.data)]

\* What the file held before that save.
PriorData == SubSeq(file.data, 1, Len(file.data) - 1)

\* A load(user_id, limit=1) served by the local file, for the user of the
\* session that the save before it appended to the file.
SavedThenLoadedLocally ==
    /\ last.op = "load"
    /\ last.tier = "local"
    /\ last.limit = 1
    /\ file.kind = "list"
    /\ Len(file.data) >= 1
    /\ JustSaved.sid = nextSid - 1
    /\ JustSaved.uid = last.uid

\* C3, as stated: on the local tier a save that returns true followed by
\* load(user_id, limit=1) returns exactly the saved session, whatever the
\* file held before, sessions with equal or later timestamps included.
C3_SaveThenLoadAnyPrior ==
    SavedThenLoadedLocally => last.result = <<JustSaved>>

\* Every session of the user that the file held before the save is
\* strictly older than the saved one.
PriorAllOlder ==
    \A i \in 1..Len(PriorData) :
        PriorData[i].uid = last.uid => PriorData[i].ts < JustSaved.ts

\* C3, amended: the same, provided every session of that user already in
\* the file has a timestamp strictly earlier than the saved session's.
C3_SaveThenLoadNewest ==
    (SavedThenLoadedLocally /\ PriorAllOlder) => last.result = <<JustSaved>>

\* The file already held an older session of the same user.
C3_Witness ==
    /\ SavedThenLoadedLocally
    /\ PriorAllOlder
    /\ \E i \in 1..Len(PriorData) : PriorData[i].uid = last.uid
    /\ last.result = <<JustSaved>>

NonIncreasing(d) == \A i \in 1..Len(d) : \A j \in 1..Len(d) : i < j => d[i].ts >= d[j].ts

\* C4, as stated: for every limit N, load returns at most N entries, in
\* non-increasing timestamp order.  A negative N is read in the claim's
\* favour, as allowing no entry.
C4_AtMostLimitAnyN ==
    last.op = "load" =>
        /\ Len(last.result) <= (IF last.limit >= 0 THEN last.limit ELSE 0)
        /\ NonIncreasing(last.result)

\* C4, amended: for every limit N >= 0, load returns at most N entries, in
\* non-increasing timestamp order.
C4_AtMostLimit ==
    (last.op = "load" /\ last.limit >= 0) =>
        /\ Len(last.result) <= last.limit
        /\ NonIncreasing(last.result)

\* The tier that served the load.
Served == IF last.tier = "remote" THEN last.remoteBefore ELSE last.fileBefore.data

\* The user has two sessions in the tier that serves the load, limit 1
\* keeps the newer one.
C4_Witness ==
    /\ last.op = "load"
    /\ last.limit = 1
    /\ Len(last.result) = 1
    /\ Len(FilterUser(Served, last.uid)) = 2
    /\ \E i \in 1..2 : FilterUser(Served, last.uid)[i].ts < last.result[1].ts

C6_OneSource ==
    last.op = "load" =>
        \/ \A i \in 1..Len(last.result) : last.result[i] \in Range(last.remoteBefore)
        \/ \A i \in 1..Len(last.result) : last.result[i] \in Range(last.fileBefore.data)

\* The remote query fails with a session of the user in each store: only
\* the one of the file comes back.
C6_Witness ==
    /\ last.op = "load"
    /\ last.rc \in {"error", "throws"}
    /\ last.limit >= 1
    /\ Len(FilterUser(last.remoteBefore, last.uid)) = 1
    /\ Len(last.result) = 1
    /\ last.result[1] \in Range(last.fileBefore.data)

\* C9: a load served by the local tier with the file missing or not
\* parseable returns the empty sequence, does not raise, and leaves the
\* file as it was.
C9_MissingFileLoad ==
    (/\ last.op = "load"
     /\ last.tier = "local"
     /\ last.fileBefore.kind \in {"missing", "corrupt"}) =>
        /\ last.result = <<>>
        /\ ~last.raised
        /\ file = last.fileBefore

\* The remote query throws and the file is missing.
C9_Witness ==
    /\ last.op = "load"
    /\ last.rc = "throws"
    /\ last.fileBefore = MissingFile
    /\ last.result = <<>>
    /\ file = MissingFile

OfUser == {e \in Range(last.fileBefore.data) : e.uid = last.uid}

\* C11: on the local path load filters, then sorts, then truncates: every
\* returned session is one of the requested user's, and for a limit N >= 0
\* the result is the first N of that user's sessions by timestamp
\* descending: min(N, number of them) distinct sessions of the file in
\* non-increasing order, none of the omitted ones newer than a returned
\* one, whatever sessions of other users the file holds.
C11_FilterSortTruncate ==
    (/\ last.op = "load"
     /\ last.tier = "local"
     /\ last.fileBefore.kind = "list"
     /\ last.limit >= 0) =>
        LET r == last.result
            n == Cardinality(OfUser)
        IN  /\ Range(r) \subseteq OfUser
            /\ Cardinality(Range(r)) = Len(r)
            /\ Len(r) = (IF last.limit < n THEN last.limit ELSE n)
            /\ NonIncreasing(r)
            /\ \A e \in OfUser \ Range(r) : \A i \in 1..Len(r) : e.ts <= r[i].ts

\* The file starts with a session of another user: with limit 1 the
\* session of the requested user behind it is returned.
C11_Witness ==
    /\ last.op = "load"
    /\ last.tier = "local"
    /\ last.limit = 1
    /\ Len(last.fileBefore.data) = 2
    /\ last.fileBefore.data[1].uid # last.uid
    /\ last.result = <<last.fileBefore.data[2]>>

\* C12: a save on the local tier that returns false leaves the local file
\* exactly as it was, whichever step failed: reading the file, appending to
\* what was parsed, opening the file for writing, or serialising the array.
C12_FailedSaveKeepsFile ==
    (/\ last.op = "save"
     /\ last.tier = "local"
     /\ ~last.ret) =>
        file = last.fileBefore

\* The sessions held by either store.
Stored == Range(remote) \cup Range(file.data)

\* The session of the latest save call, when that call returned true: it
\* is numbered nextSid - 1 and one of the stores holds it.
LatestSaved == CHOOSE e \in Stored : e.sid = nextSid - 1

\* The tier that served that save.
SavedTier == IF LatestSaved \in Range(remote) THEN "remote" ELSE "local"

\* A load for the user of the session that the save before it stored, with
\* a limit that is at least the number of that user's stored sessions.
SavedThenLoaded ==
    /\ last.op = "load"
    /\ \E e \in Stored : e.sid = nextSid - 1
    /\ LatestSaved.uid = last.uid
    /\ last.limit >= Cardinality({e \in Stored : e.uid = last.uid})

\* C13, as stated: whenever save returns true, a load that follows it for
\* the same user, with a limit at least the number of that user's stored
\* sessions, returns the session, whichever tier served the save and
\* whichever tier serves the load.
C13_ReadYourWritesAnyTier ==
    SavedThenLoaded => LatestSaved \in Range(last.result)

\* C13, amended: the same, provided the load is served by the tier that
\* served the save.
C13_ReadYourWritesSameTier ==
    (SavedThenLoaded /\ last.tier = SavedTier) => LatestSaved \in Range(last.result)

\* With a client configured, the insert failed and the session went to the
\* file; the query failed too and the load read it from the file.
C13_Witness ==
    /\ SavedThenLoaded
    /\ env = "configured"
    /\ SavedTier = "local"
    /\ last.tier = "local"
    /\ last.rc \in {"error", "throws"}
    /\ LatestSaved \in Range(last.result)

----------------------------------------------------------------------------
(* Properties of two concurrent local saves, checked under SpecRace *)

BothSaved == \A w \in Writers : wpc[w] = "done" /\ wret[w]

\* C7: nothing orders the two calls.  When both have returned true the
\* file is what the writer that wrote last had read, plus its own session:
\* the session of the other writer is there only if it was read.
C7_LastWriterWins ==
    BothSaved =>
        file = ListFile(Append(wsnap[lastWriter].data, wsess[lastWriter]))

\* Both calls returned true and the file holds one of the two sessions.
C7_Witness ==
    /\ BothSaved
    /\ wsess[lastWriter] \in Range(file.data)
    /\ wsess[Other(lastWriter)] \notin Range(file.data)

====
